---- MODULE Spec2Model ----
(***************************************************************************)
(* Model of the lease-accounting application in src/app.py: the payment    *)
(* stream, its present value, the amortization schedule, the journal       *)
(* entries, the portfolio reports by period, and the session registry     *)
(* saved_leases with its Google Sheets persistence.                        *)
(*                                                                         *)
(* Numbers.  The program computes in Python floats.  The model computes    *)
(* the same expressions in exact rational arithmetic: a number is a pair   *)
(* <<n, d>> in lowest terms with d > 0.  Statements about the schedule     *)
(* are therefore statements "in exact arithmetic"; floating-point error    *)
(* is outside the model.  TLC integers are 32 bits wide, so the inputs     *)
(* are chosen with monthly growth factors that are powers of two.          *)
(***************************************************************************)
EXTENDS Integers, Sequences, FiniteSets, TLC

VARIABLES
    \* ---- one call of the computational core (specification Spec) ----
    lease_term,              \* arguments of generate_amortization_schedule
    base_payment,
    annual_discount_rate,
    annual_escalation_rate,
    start_date,
    payment_timing,
    lease_type,
    pc,                      \* position of the caller
    monthly_payments,        \* result of generate_monthly_payments
    period,                  \* the loop variable of the schedule loop
    st,                      \* the locals the loop carries: liability_balance,
                             \* rou_asset, schedule_rows
    df_schedule,             \* rows of the returned schedule DataFrame
    df_journal,              \* rows of the returned journal DataFrame
    raised,                  \* the exception that ended the call, or "none"
    \* ---- the Streamlit session (specification AppSpec) ----
    saved_leases,            \* st.session_state["saved_leases"]
    sheet,                   \* data rows of the worksheet LeaseData.sheet1
    last_action,             \* what the last button handler computed
    every_call_ok,           \* no Google Sheets call of the session has failed
    \* ---- the portfolio reports (specification PortfolioSpec) ----
    report_start,            \* the date inputs of the tab "Portfolio Reports"
    report_end,
    df_liab,                 \* rows portfolio_liab_by_period returned
    df_rou                   \* rows portfolio_rou_by_period returned

calc_vars == <<lease_term, base_payment, annual_discount_rate,
               annual_escalation_rate, start_date, payment_timing, lease_type,
               pc, monthly_payments, period, st, df_schedule, df_journal,
               raised>>
app_vars == <<saved_leases, sheet, last_action, every_call_ok>>
report_vars == <<report_start, report_end, df_liab, df_rou>>
vars == <<calc_vars, app_vars, report_vars>>

-----------------------------------------------------------------------------
(* Bounds of the model *)

\* longest lease term (months) given to the computational core
MaxTerm == 13
\* most data rows the worksheet is allowed to grow to
MaxSheetRows == 3
\* the base monthly payment of the leases that pay anything
BasePaymentAmount == 100
\* longest lease term (months) among the leases of a portfolio report
MaxPortfolioTerm == 3

-----------------------------------------------------------------------------
(* Exact arithmetic standing for Python float arithmetic *)

Abs(n) == IF n < 0 THEN -n ELSE n

RECURSIVE GCD(_, _)
GCD(a, b) == IF b = 0 THEN a ELSE GCD(b, a % b)

LCM(a, b) == (a \div GCD(a, b)) * b

\* the number n/d (d > 0) in lowest terms
Norm(n, d) == LET g == GCD(Abs(n), d) IN <<n \div g, d \div g>>

Num(n) == <<n, 1>>
Zero == <<0, 1>>

Neg(x) == <<-x[1], x[2]>>

Add(x, y) ==
    IF x[2] = y[2] THEN Norm(x[1] + y[1], x[2])
    ELSE LET l == LCM(x[2], y[2])
         IN  Norm(x[1] * (l \div x[2]) + y[1] * (l \div y[2]), l)

Sub(x, y) == Add(x, Neg(y))

Mul(x, y) ==
    IF x[1] = 0 \/ y[1] = 0 THEN Zero
    ELSE LET g1 == GCD(Abs(x[1]), y[2])
             g2 == GCD(Abs(y[1]), x[2])
         IN  <<(x[1] \div g1) * (y[1] \div g2), (x[2] \div g2) * (y[2] \div g1)>>

\* x / y for y # 0
Div(x, y) ==
    Mul(x, IF y[1] < 0 THEN <<-y[2], -y[1]>> ELSE <<y[2], y[1]>>)

\* x ** k for an integer k >= 0 (x is in lowest terms, and so is the result)
Pow(x, k) == <<x[1] ^ k, x[2] ^ k>>

IsZero(x) == x[1] = 0
IsNeg(x) == x[1] < 0
Leq(x, y) == ~IsNeg(Sub(y, x))
AbsR(x) == <<Abs(x[1]), x[2]>>

\* max(x, 0)
Max0(x) == IF IsNeg(x) THEN Zero ELSE x

\* sum(xs) of a sequence of numbers
RECURSIVE SumSeq(_)
SumSeq(xs) == IF xs = <<>> THEN Zero ELSE Add(Head(xs), SumSeq(Tail(xs)))

\* round(x, 2): the nearest multiple of 0.01, a tie going to the even one
Round2(x) ==
    LET q == x[1] \div x[2]
        r == x[1] % x[2]
        c == (100 * r) \div x[2]
        f == (100 * r) % x[2]
        k == 100 * q + c
        up == \/ 2 * f > x[2]
              \/ 2 * f = x[2] /\ k % 2 = 1
    IN  Norm(IF up THEN k + 1 ELSE k, 100)

-----------------------------------------------------------------------------
(* Calendar dates: <<year, month, day>> *)

IsLeap(y) == (y % 4 = 0 /\ y % 100 # 0) \/ y % 400 = 0

DaysInMonth(y, m) ==
    IF m = 2 THEN (IF IsLeap(y) THEN 29 ELSE 28)
    ELSE IF m \in {4, 6, 9, 11} THEN 30 ELSE 31

\* pd.to_datetime(d) + pd.DateOffset(months=k): the same day of the month k
\* months later, or that month's last day when the month is shorter
DateOffsetMonths(d, k) ==
    LET t == (d[1] * 12 + (d[2] - 1)) + k
        y == t \div 12
        m == (t % 12) + 1
        last == DaysInMonth(y, m)
    IN  <<y, m, IF d[3] > last THEN last ELSE d[3]>>

-----------------------------------------------------------------------------
(* 2. HELPER FUNCTIONS *)

\* months in one escalation block (month - 1) // 12
MonthsPerYear == 12

\* years_elapsed = (month - 1) // 12
YearsElapsed(month) == (month - 1) \div MonthsPerYear

\* base_payment * (1 + annual_escalation_rate) ** years_elapsed
PaymentForMonth(base, escalation, month) ==
    Mul(base, Pow(Add(Num(1), escalation), YearsElapsed(month)))

\* the variant in which an advance ("begin") lease escalates one month early
generate_monthly_payments_timing_shift(base, term, escalation, timing) ==
    [month \in 1..term |->
        Mul(base, Pow(Add(Num(1), escalation),
                      IF timing = "begin" THEN month \div MonthsPerYear
                                          ELSE YearsElapsed(month)))]

\* for month in range(1, lease_term + 1): payments.append(payment_for_month)
\* (range(1, n + 1) is empty for n <= 0, and so is 1..n)
generate_monthly_payments(base, term, escalation, timing) ==
    [month \in 1..term |-> PaymentForMonth(base, escalation, month)]

\* the exponent of the discount factor of payment i
DiscountExponent(i, timing) == IF timing = "end" THEN i ELSE i - 1

\* pv = sum of pmt / ((1 + monthly_rate) ** exponent) over enumerate(payments, 1)
RECURSIVE PVFrom(_, _, _, _)
PVFrom(payments, i, monthly_rate, timing) ==
    IF i > Len(payments) THEN Zero
    ELSE Add(Div(payments[i],
                 Pow(Add(Num(1), monthly_rate), DiscountExponent(i, timing))),
             PVFrom(payments, i + 1, monthly_rate, timing))

present_value_of_varied_payments(payments, monthly_rate, timing) ==
    PVFrom(payments, 1, monthly_rate, timing)

-----------------------------------------------------------------------------
(* 3. MAIN AMORTIZATION FUNCTION *)

\* monthly_rate = annual_discount_rate / 12.0
MonthlyRate(annual_rate) == Div(annual_rate, Num(12))

\* interest_expense = liability_balance * monthly_rate
AccruedInterest(liability_balance, monthly_rate) ==
    Mul(liability_balance, monthly_rate)

\* the variant that pays the whole payment against the liability
PrincipalWholePayment(timing, current_payment, accrued) == current_payment

\* if payment_timing == "end": principal = current_payment - interest_expense
\* else:                       principal = current_payment
Principal(timing, current_payment, accrued) ==
    IF timing = "end" THEN Sub(current_payment, accrued) ELSE current_payment

\* the interest_expense the row stores: the accrued interest for "end",
\* else (liability_balance - principal) * monthly_rate
InterestExpense(timing, liability_balance, principal, monthly_rate) ==
    IF timing = "end" THEN AccruedInterest(liability_balance, monthly_rate)
    ELSE Mul(Sub(liability_balance, principal), monthly_rate)

\* Operating: total_lease_expense = sum(monthly_payments) / lease_term
\*            rou_amortization = total_lease_expense - interest_expense
OperatingRouAmortization(payments, term, interest_expense) ==
    Sub(Div(SumSeq(payments), Num(term)), interest_expense)

\* else: rou_amortization = rou_asset / lease_term
FinanceRouAmortization(rou_asset, term) == Div(rou_asset, Num(term))

\* the variant that also writes the Finance amortization off the accumulator
RouAssetAfterAlwaysReduced(type, rou_asset, rou_amortization) ==
    Sub(rou_asset, rou_amortization)

\* Operating: rou_asset -= rou_amortization; the Finance branch leaves the
\* local rou_asset as it is
RouAssetAfter(type, rou_asset, rou_amortization) ==
    IF type = "Operating" THEN Sub(rou_asset, rou_amortization) ELSE rou_asset

\* the variant that reports the accumulator as it is
ReportedRouBalanceUnclamped(rou_asset) == rou_asset

\* "ROU_Asset_Balance": max(rou_asset, 0)
ReportedRouBalance(rou_asset) == Max0(rou_asset)

\* one pass of the body of "for period in range(1, lease_term + 1)" from the
\* locals s = [liability_balance, rou_asset, schedule_rows] with period = p
PeriodStep(s, p, payments, monthly_rate, term, start, timing, type) ==
    LET current_payment == payments[p]
        accrued == AccruedInterest(s.liability_balance, monthly_rate)
        principal == Principal(timing, current_payment, accrued)
        interest_expense ==
            InterestExpense(timing, s.liability_balance, principal, monthly_rate)
        new_liability_balance == Sub(s.liability_balance, principal)
        rou_amortization ==
            IF type = "Operating"
            THEN OperatingRouAmortization(payments, term, interest_expense)
            ELSE FinanceRouAmortization(s.rou_asset, term)
        rou_asset == RouAssetAfter(type, s.rou_asset, rou_amortization)
        row == [Period |-> p,
                Date |-> DateOffsetMonths(start, p - 1),
                Payment |-> current_payment,
                Interest_Expense |-> interest_expense,
                Principal |-> principal,
                Lease_Liability_Balance |-> new_liability_balance,
                ROU_Asset_Amortization |-> rou_amortization,
                ROU_Asset_Balance |-> ReportedRouBalance(rou_asset)]
    IN  [liability_balance |-> new_liability_balance,
         rou_asset |-> rou_asset,
         schedule_rows |-> Append(s.schedule_rows, row)]

\* the variant whose loop stops one period early
LastPeriodShort(term) == term - 1

\* the last value of range(1, lease_term + 1)
LastPeriod(term) == term

\* the locals before the loop: rou_asset = lease_liability,
\* schedule_rows = [], liability_balance = lease_liability
LoopStart(payments, monthly_rate, timing) ==
    LET lease_liability ==
            present_value_of_varied_payments(payments, monthly_rate, timing)
    IN  [liability_balance |-> lease_liability,
         rou_asset |-> lease_liability,
         schedule_rows |-> <<>>]

\* line 120, sum(monthly_payments) / lease_term, is executed for "Operating"
\* before the loop and divides by zero when lease_term is 0; no other
\* statement of the function raises for the arguments modelled
RaisedBeforeLoop(term, type) ==
    IF type = "Operating" /\ term = 0 THEN "ZeroDivisionError" ELSE "none"

RECURSIVE ScheduleLoop(_, _, _, _, _, _, _, _)
ScheduleLoop(s, p, payments, monthly_rate, term, start, timing, type) ==
    IF p > LastPeriod(term) THEN s
    ELSE ScheduleLoop(
             PeriodStep(s, p, payments, monthly_rate, term, start, timing,
                        type),
             p + 1, payments, monthly_rate, term, start, timing, type)

\* The call generate_amortization_schedule(...) as one step: the exception
\* it raises (or "none") and the rows of the DataFrame it returns.
generate_amortization_schedule(term, base, rate, esc, start, timing, type) ==
    LET payments == generate_monthly_payments(base, term, esc, timing)
        monthly_rate == MonthlyRate(rate)
        end == ScheduleLoop(LoopStart(payments, monthly_rate, timing), 1,
                            payments, monthly_rate, term, start, timing, type)
    IN  IF RaisedBeforeLoop(term, type) # "none"
        THEN [raised |-> RaisedBeforeLoop(term, type), rows |-> <<>>]
        ELSE [raised |-> "none", rows |-> end.schedule_rows]

-----------------------------------------------------------------------------
(* 4. JOURNAL ENTRY CREATION *)

JournalLine(row, account, debit, credit) ==
    [Date |-> row.Date, Period |-> row.Period, Account |-> account,
     Debit |-> debit, Credit |-> credit]

\* if rou_amort != 0.0: the amortization pair, with the expense account named
\* as the branch names it
AmortizationLines(row, expense_account) ==
    IF ~IsZero(row.ROU_Asset_Amortization)
    THEN << JournalLine(row, expense_account,
                        Round2(row.ROU_Asset_Amortization), Zero),
            JournalLine(row, "Accumulated Amortization - ROU Asset",
                        Zero, Round2(row.ROU_Asset_Amortization)) >>
    ELSE <<>>

\* the entries appended for one schedule row
RowEntries(row, type) ==
    IF type = "Operating"
    THEN << JournalLine(row, "Lease Expense", Round2(row.Payment), Zero),
            JournalLine(row, "Cash", Zero, Round2(row.Payment)) >>
         \o AmortizationLines(row, "ROU Asset Amortization Expense")
    ELSE << JournalLine(row, "Interest Expense",
                        Round2(row.Interest_Expense), Zero),
            JournalLine(row, "Lease Liability", Round2(row.Principal), Zero),
            JournalLine(row, "Cash", Zero, Round2(row.Payment)) >>
         \o AmortizationLines(row, "Amortization Expense - ROU Asset")

\* for _, row in schedule_df.iterrows(): entries.append(...)
RECURSIVE generate_monthly_journal_entries(_, _)
generate_monthly_journal_entries(schedule_rows, type) ==
    IF schedule_rows = <<>> THEN <<>>
    ELSE RowEntries(Head(schedule_rows), type)
         \o generate_monthly_journal_entries(Tail(schedule_rows), type)

-----------------------------------------------------------------------------
(* 1. GOOGLE SHEETS HELPERS *)

\* saved_leases = {}
NoLeases == [n \in {} |-> <<>>]

\* DataFrame.to_json() writes floats with double_precision = 10 decimals
DoublePrecision == 10

\* the first k decimals of r/d (0 <= r < d), and what is left after them
RECURSIVE LongDivision(_, _, _)
LongDivision(r, d, k) ==
    IF k = 0 THEN [digits |-> <<>>, rest |-> r]
    ELSE LET tail == LongDivision((10 * r) % d, d, k - 1)
         IN  [digits |-> <<(10 * r) \div d>> \o tail.digits,
              rest |-> tail.rest]

\* a digit string plus one unit in its last place: the digits and the carry
RECURSIVE PlusOneUlp(_)
PlusOneUlp(digits) ==
    IF digits = <<>> THEN [digits |-> <<>>, carry |-> 1]
    ELSE LET n == Len(digits)
             front == SubSeq(digits, 1, n - 1)
         IN  IF digits[n] < 9
             THEN [digits |-> Append(front, digits[n] + 1), carry |-> 0]
             ELSE LET up == PlusOneUlp(front)
                  IN  [digits |-> Append(up.digits, 0), carry |-> up.carry]

\* the JSON text of a float: sign, integer part and DoublePrecision decimals,
\* rounded to the nearest
FloatToJson(x) ==
    LET a == Abs(x[1])
        ld == LongDivision(a % x[2], x[2], DoublePrecision)
        up == IF 2 * ld.rest >= x[2] THEN PlusOneUlp(ld.digits)
              ELSE [digits |-> ld.digits, carry |-> 0]
    IN  [neg |-> x[1] < 0, int |-> (a \div x[2]) + up.carry,
         frac |-> up.digits]

\* the value of decimals k, k + 1, ... of a digit string
RECURSIVE FractionValue(_, _)
FractionValue(digits, k) ==
    IF k > Len(digits) THEN Zero
    ELSE IF digits[k] = 0 THEN FractionValue(digits, k + 1)
    ELSE Add(<<digits[k], 10 ^ k>>, FractionValue(digits, k + 1))

\* the float pd.read_json parses from the text
FloatFromJson(t) ==
    LET v == Add(Num(t.int), FractionValue(t.frac, 1))
    IN  IF t.neg THEN Neg(v) ELSE v

\* to_json writes a Timestamp as its epoch: the days since 1970-01-01 (the
\* text holds that many times 86,400,000 milliseconds)
DateToJson(date) ==
    LET y == IF date[2] <= 2 THEN date[1] - 1 ELSE date[1]
        era == y \div 400
        yoe == y - era * 400
        mp == IF date[2] > 2 THEN date[2] - 3 ELSE date[2] + 9
        doy == (153 * mp + 2) \div 5 + date[3] - 1
        doe == yoe * 365 + yoe \div 4 - yoe \div 100 + doy
    IN  era * 146097 + doe - 719468

\* read_json converts the column named "Date" back to Timestamps
DateFromJson(days) ==
    LET z == days + 719468
        era == z \div 146097
        doe == z - era * 146097
        yoe == (doe - doe \div 1460 + doe \div 36524 - doe \div 146096) \div 365
        doy == doe - (365 * yoe + yoe \div 4 - yoe \div 100)
        mp == (5 * doy + 2) \div 153
        d == doy - (153 * mp + 2) \div 5 + 1
        m == IF mp < 10 THEN mp + 3 ELSE mp - 9
        y == yoe + era * 400
    IN  <<IF m <= 2 THEN y + 1 ELSE y, m, d>>

\* schedule_df.to_json(), row by row
ScheduleToJson(rows) ==
    [i \in 1..Len(rows) |->
        [Period |-> rows[i].Period,
         Date |-> DateToJson(rows[i].Date),
         Payment |-> FloatToJson(rows[i].Payment),
         Interest_Expense |-> FloatToJson(rows[i].Interest_Expense),
         Principal |-> FloatToJson(rows[i].Principal),
         Lease_Liability_Balance |->
             FloatToJson(rows[i].Lease_Liability_Balance),
         ROU_Asset_Amortization |->
             FloatToJson(rows[i].ROU_Asset_Amortization),
         ROU_Asset_Balance |-> FloatToJson(rows[i].ROU_Asset_Balance)]]

\* pd.read_json(row["SerializedSchedule"])
ScheduleFromJson(doc) ==
    [i \in 1..Len(doc) |->
        [Period |-> doc[i].Period,
         Date |-> DateFromJson(doc[i].Date),
         Payment |-> FloatFromJson(doc[i].Payment),
         Interest_Expense |-> FloatFromJson(doc[i].Interest_Expense),
         Principal |-> FloatFromJson(doc[i].Principal),
         Lease_Liability_Balance |->
             FloatFromJson(doc[i].Lease_Liability_Balance),
         ROU_Asset_Amortization |->
             FloatFromJson(doc[i].ROU_Asset_Amortization),
         ROU_Asset_Balance |-> FloatFromJson(doc[i].ROU_Asset_Balance)]]

\* journal_df.to_json(), line by line
JournalToJson(lines) ==
    [i \in 1..Len(lines) |->
        [Date |-> DateToJson(lines[i].Date),
         Period |-> lines[i].Period,
         Account |-> lines[i].Account,
         Debit |-> FloatToJson(lines[i].Debit),
         Credit |-> FloatToJson(lines[i].Credit)]]

\* pd.read_json(row["SerializedJournal"])
JournalFromJson(doc) ==
    [i \in 1..Len(doc) |->
        [Date |-> DateFromJson(doc[i].Date),
         Period |-> doc[i].Period,
         Account |-> doc[i].Account,
         Debit |-> FloatFromJson(doc[i].Debit),
         Credit |-> FloatFromJson(doc[i].Credit)]]

\* the dictionary built from records i, i + 1, ... on top of acc: a later row
\* of the same LeaseName replaces an earlier one
RECURSIVE LoadRows(_, _, _)
LoadRows(rows, i, acc) ==
    IF i > Len(rows) THEN acc
    ELSE LoadRows(rows, i + 1,
             [n \in DOMAIN acc \cup {rows[i].LeaseName} |->
                 IF n = rows[i].LeaseName
                 THEN [schedule |-> ScheduleFromJson(rows[i].SerializedSchedule),
                       journal |-> JournalFromJson(rows[i].SerializedJournal)]
                 ELSE acc[n]])

\* load_leases_from_gsheet: the dictionary of the worksheet's records, or {}
\* when anything raised (ok = FALSE)
load_leases_from_gsheet(rows, ok) ==
    IF ok THEN LoadRows(rows, 1, NoLeases) ELSE NoLeases

\* save_lease_to_gsheet: the worksheet after sheet.append_row(new_row), or
\* unchanged when anything raised
save_lease_to_gsheet(rows, lease_name, schedule_df, journal_df, ok) ==
    IF ok
    THEN Append(rows, [LeaseName |-> lease_name,
                       SerializedSchedule |-> ScheduleToJson(schedule_df),
                       SerializedJournal |-> JournalToJson(journal_df)])
    ELSE rows

\* the rows without row i
DeleteRow(rows, i) == SubSeq(rows, 1, i - 1) \o SubSeq(rows, i + 1, Len(rows))

\* delete_lease_in_gsheet: the worksheet after deleting the first record whose
\* LeaseName is lease_name ("break"), or unchanged when there is none or
\* anything raised
delete_lease_in_gsheet(rows, lease_name, ok) ==
    LET hits == {i \in 1..Len(rows) : rows[i].LeaseName = lease_name}
    IN  IF ok /\ hits # {}
        THEN DeleteRow(rows, CHOOSE i \in hits : \A j \in hits : i <= j)
        ELSE rows

\* update_lease_in_gsheet: delete + re-append
update_lease_in_gsheet(rows, lease_name, schedule_df, journal_df, ok1, ok2) ==
    save_lease_to_gsheet(delete_lease_in_gsheet(rows, lease_name, ok1),
                         lease_name, schedule_df, journal_df, ok2)

-----------------------------------------------------------------------------
(* The arguments the computational core is called with *)

LeaseTerms == -1..MaxTerm
BasePayments == {Zero, Num(BasePaymentAmount)}
\* annual rates as fractions: 0 and 12.0 (a monthly rate of 0 and of 1)
AnnualDiscountRates == {Zero, Num(12)}
\* 0 and 0.5
AnnualEscalationRates == {Zero, <<1, 2>>}
StartDates == {<<2024, 1, 31>>}
\* the two recognized values of each, and one unrecognized value
PaymentTimings == {"end", "begin", "advance"}
LeaseTypes == {"Operating", "Finance", "operating"}

ValidTiming(t) == t \in {"end", "begin"}
ValidType(t) == t \in {"Operating", "Finance"}

-----------------------------------------------------------------------------
(* Specification Spec: one call of the core on arguments drawn in Init *)

\* the tab "Portfolio Reports" has not been rendered
ReportsNotRendered ==
    /\ report_start = <<>>
    /\ report_end = <<>>
    /\ df_liab = <<>>
    /\ df_rou = <<>>

NoLocals == [liability_balance |-> Zero, rou_asset |-> Zero,
             schedule_rows |-> <<>>]

Init ==
    /\ lease_term \in LeaseTerms
    /\ base_payment \in BasePayments
    /\ annual_discount_rate \in AnnualDiscountRates
    /\ annual_escalation_rate \in AnnualEscalationRates
    /\ start_date \in StartDates
    /\ payment_timing \in PaymentTimings
    /\ lease_type \in LeaseTypes
    /\ pc = "start"
    /\ monthly_payments = <<>>
    /\ period = 0
    /\ st = NoLocals
    /\ df_schedule = <<>>
    /\ df_journal = <<>>
    /\ raised = "none"
    /\ saved_leases = NoLeases
    /\ sheet = <<>>
    /\ last_action = [kind |-> "none"]
    /\ every_call_ok = TRUE
    /\ ReportsNotRendered

inputs == <<lease_term, base_payment, annual_discount_rate,
            annual_escalation_rate, start_date, payment_timing, lease_type>>

\* payments = generate_monthly_payments(...), called on its own
CallGenerateMonthlyPayments ==
    /\ pc = "start"
    /\ monthly_payments' =
           generate_monthly_payments(base_payment, lease_term,
                                     annual_escalation_rate, payment_timing)
    /\ pc' = "payments"
    /\ UNCHANGED <<inputs, period, st, df_schedule, df_journal, raised,
                   app_vars, report_vars>>

\* generate_amortization_schedule, lines 109-120: up to the loop
EnterSchedule ==
    /\ pc = "payments"
    /\ monthly_payments' =
           generate_monthly_payments(base_payment, lease_term,
                                     annual_escalation_rate, payment_timing)
    /\ st' = LoopStart(monthly_payments', MonthlyRate(annual_discount_rate),
                       payment_timing)
    /\ raised' = RaisedBeforeLoop(lease_term, lease_type)
    /\ period' = 1
    /\ pc' = IF raised' = "none" THEN "loop" ELSE "raised"
    /\ UNCHANGED <<inputs, df_schedule, df_journal, app_vars, report_vars>>

\* generate_amortization_schedule, lines 122-152: one pass of the loop body
LoopIteration ==
    /\ pc = "loop"
    /\ period <= LastPeriod(lease_term)
    /\ st' = PeriodStep(st, period, monthly_payments,
                        MonthlyRate(annual_discount_rate), lease_term,
                        start_date, payment_timing, lease_type)
    /\ period' = period + 1
    /\ UNCHANGED <<inputs, pc, monthly_payments, df_schedule, df_journal,
                   raised, app_vars, report_vars>>

\* generate_amortization_schedule, line 154: return pd.DataFrame(schedule_rows)
ReturnSchedule ==
    /\ pc = "loop"
    /\ period > LastPeriod(lease_term)
    /\ df_schedule' = st.schedule_rows
    /\ pc' = "scheduled"
    /\ UNCHANGED <<inputs, monthly_payments, period, st, df_journal, raised,
                   app_vars, report_vars>>

\* df_journal = generate_monthly_journal_entries(df_schedule, lease_type)
CallGenerateMonthlyJournalEntries ==
    /\ pc = "scheduled"
    /\ df_journal' = generate_monthly_journal_entries(df_schedule, lease_type)
    /\ pc' = "journaled"
    /\ UNCHANGED <<inputs, monthly_payments, period, st, df_schedule, raised,
                   app_vars, report_vars>>

Next ==
    \/ CallGenerateMonthlyPayments
    \/ EnterSchedule
    \/ LoopIteration
    \/ ReturnSchedule
    \/ CallGenerateMonthlyJournalEntries

Spec == Init /\ [][Next]_vars

-----------------------------------------------------------------------------
(* 7. STREAMLIT APP: specification AppSpec, the session and the worksheet *)

\* values of the text input "Lease Name/ID"
LeaseNames == {"Lease A", "Lease B"}

\* values of the sidebar inputs (lease_term >= 1 and a recognized type and
\* timing, as the widgets enforce; the rates are the fractions the handlers
\* pass on, percent / 100.0)
SidebarInputs ==
    { [lease_term |-> 1, base_payment |-> Num(BasePaymentAmount),
       annual_discount_rate |-> Zero, annual_escalation_rate |-> Zero,
       start_date |-> <<2024, 1, 31>>, payment_timing |-> "end",
       lease_type |-> "Operating"],
      [lease_term |-> 2, base_payment |-> Num(BasePaymentAmount),
       annual_discount_rate |-> Num(12), annual_escalation_rate |-> Zero,
       start_date |-> <<2023, 12, 31>>, payment_timing |-> "begin",
       lease_type |-> "Finance"] }

\* df_schedule and df_journal as a button handler computes them from the
\* sidebar inputs
ComputedLeases ==
    [in \in SidebarInputs |->
        LET df == generate_amortization_schedule(
                      in.lease_term, in.base_payment, in.annual_discount_rate,
                      in.annual_escalation_rate, in.start_date,
                      in.payment_timing, in.lease_type).rows
        IN  [schedule |-> df,
             journal |-> generate_monthly_journal_entries(df, in.lease_type)]]

ComputeLease(in) == ComputedLeases[in]

\* main(), lines 336-337: a new session loads the registry from the worksheet
AppInit ==
    /\ lease_term = 0
    /\ base_payment = Zero
    /\ annual_discount_rate = Zero
    /\ annual_escalation_rate = Zero
    /\ start_date = <<2024, 1, 31>>
    /\ payment_timing = "end"
    /\ lease_type = "Operating"
    /\ pc = "app"
    /\ monthly_payments = <<>>
    /\ period = 0
    /\ st = NoLocals
    /\ df_schedule = <<>>
    /\ df_journal = <<>>
    /\ raised = "none"
    /\ sheet = <<>>
    /\ \E load_ok \in BOOLEAN :
           /\ saved_leases = load_leases_from_gsheet(sheet, load_ok)
           /\ every_call_ok = load_ok
    /\ last_action = [kind |-> "session"]
    /\ ReportsNotRendered

\* a later session (a new browser session) on the same worksheet
NewSession ==
    /\ \E load_ok \in BOOLEAN :
           /\ saved_leases' = load_leases_from_gsheet(sheet, load_ok)
           /\ every_call_ok' = (every_call_ok /\ load_ok)
    /\ last_action' = [kind |-> "session"]
    /\ UNCHANGED <<calc_vars, sheet, report_vars>>

\* the button "Generate & Save Lease Schedule", lines 360-381
GenerateAndSave ==
    /\ \E lease_name \in LeaseNames, in \in SidebarInputs,
          save_ok \in BOOLEAN, load_ok \in BOOLEAN :
           LET df == ComputeLease(in)
           IN  /\ save_ok => Len(sheet) < MaxSheetRows
               /\ sheet' = save_lease_to_gsheet(sheet, lease_name, df.schedule,
                                                df.journal, save_ok)
               /\ saved_leases' = load_leases_from_gsheet(sheet', load_ok)
               /\ last_action' =
                      [kind |-> "generate", name |-> lease_name,
                       schedule |-> df.schedule, journal |-> df.journal,
                       all_ok |-> save_ok /\ load_ok]
               /\ every_call_ok' = (every_call_ok /\ save_ok /\ load_ok)
    /\ UNCHANGED <<calc_vars, report_vars>>

\* the button "Delete Lease" for the lease selected, lines 476-480
DeleteLease ==
    /\ \E selected_lease \in DOMAIN saved_leases,
          delete_ok \in BOOLEAN, load_ok \in BOOLEAN :
           /\ sheet' = delete_lease_in_gsheet(sheet, selected_lease, delete_ok)
           /\ saved_leases' = load_leases_from_gsheet(sheet', load_ok)
           /\ last_action' = [kind |-> "delete", name |-> selected_lease,
                              all_ok |-> delete_ok /\ load_ok]
           /\ every_call_ok' = (every_call_ok /\ delete_ok /\ load_ok)
    /\ UNCHANGED <<calc_vars, report_vars>>

\* the button "Overwrite with Current Sidebar Inputs", lines 482-502
Overwrite ==
    /\ \E selected_lease \in DOMAIN saved_leases, in \in SidebarInputs,
          delete_ok \in BOOLEAN, save_ok \in BOOLEAN, load_ok \in BOOLEAN :
           LET df == ComputeLease(in)
           IN  /\ sheet' = update_lease_in_gsheet(
                               sheet, selected_lease, df.schedule, df.journal,
                               delete_ok, save_ok)
               /\ Len(sheet') <= MaxSheetRows
               /\ saved_leases' = load_leases_from_gsheet(sheet', load_ok)
               /\ last_action' =
                      [kind |-> "overwrite", name |-> selected_lease,
                       schedule |-> df.schedule, journal |-> df.journal,
                       all_ok |-> delete_ok /\ save_ok /\ load_ok]
               /\ every_call_ok' =
                      (every_call_ok /\ delete_ok /\ save_ok /\ load_ok)
    /\ UNCHANGED <<calc_vars, report_vars>>

AppNext ==
    \/ NewSession
    \/ GenerateAndSave
    \/ DeleteLease
    \/ Overwrite

AppSpec == AppInit /\ [][AppNext]_vars

-----------------------------------------------------------------------------
(* 5. CONSOLIDATED REPORTS: portfolio_liab_by_period, portfolio_rou_by_period *)

\* a <= b for two dates, as the comparison of two Timestamps
DateLeq(a, b) ==
    \/ a[1] < b[1]
    \/ a[1] = b[1] /\ a[2] < b[2]
    \/ a[1] = b[1] /\ a[2] = b[2] /\ a[3] <= b[3]

\* df = data["schedule"].copy(); df["LeaseName"] = lease_name
FrameOf(all_leases, lease_name) ==
    LET df == all_leases[lease_name].schedule
    IN  [i \in 1..Len(df) |-> [LeaseName |-> lease_name] @@ df[i]]

\* pd.concat(frames, ignore_index=True) over the leases named in names, one
\* lease after the other
RECURSIVE ConcatFrames(_, _)
ConcatFrames(all_leases, names) ==
    IF names = {} THEN <<>>
    ELSE LET lease_name == CHOOSE n \in names : TRUE
         IN  FrameOf(all_leases, lease_name)
                 \o ConcatFrames(all_leases, names \ {lease_name})

\* big_df has a column "Date": some schedule has a row (a schedule without
\* rows is pd.DataFrame([]), a frame without columns)
HasDateColumn(all_leases) ==
    \E n \in DOMAIN all_leases : all_leases[n].schedule # <<>>

\* big_df[mask]: the rows dated from start to end, both included
FilterByDate(big_df, start, end) ==
    SelectSeq(big_df, LAMBDA r : DateLeq(start, r.Date) /\ DateLeq(r.Date, end))

\* the keys of big_df.groupby("Period")
Periods(big_df) == {big_df[i].Period : i \in 1..Len(big_df)}

\* the group keys in the order groupby and sort_values("Period") leave them
RECURSIVE SortAscending(_)
SortAscending(keys) ==
    IF keys = {} THEN <<>>
    ELSE LET least == CHOOSE k \in keys : \A j \in keys : k <= j
         IN  <<least>> \o SortAscending(keys \ {least})

\* groupby("Period")[col].sum() for one key
GroupSum(big_df, key, col) ==
    SumSeq([i \in 1..Len(big_df) |->
               IF big_df[i].Period = key THEN big_df[i][col] ELSE Zero])

\* the loop over grouped.iterrows() without the update of prev_end
BeginningBalancesNeverUpdated(endings) ==
    [i \in 1..Len(endings) |-> Zero]

\* the loop over grouped.iterrows(): prev_end starts at 0.0 and then is the
\* ending balance of the row before
BeginningBalances(endings) ==
    [i \in 1..Len(endings) |-> IF i = 1 THEN Zero ELSE endings[i - 1]]

NoReport == [raised |-> "none", rows |-> <<>>]

portfolio_liab_by_period(all_leases, start, end) ==
    LET big_df == FilterByDate(ConcatFrames(all_leases, DOMAIN all_leases),
                               start, end)
        keys == SortAscending(Periods(big_df))
        beginning_liabilities ==
            BeginningBalances(
                [k \in 1..Len(keys) |->
                    GroupSum(big_df, keys[k], "Lease_Liability_Balance")])
    IN  IF DOMAIN all_leases = {} THEN NoReport
        ELSE IF ~HasDateColumn(all_leases)
        THEN [raised |-> "KeyError", rows |-> <<>>]
        ELSE IF big_df = <<>> THEN NoReport
        ELSE [raised |-> "none",
              rows |->
                  [k \in 1..Len(keys) |->
                      [Period |-> keys[k],
                       Beginning_Liability |-> beginning_liabilities[k],
                       Total_Payment |-> GroupSum(big_df, keys[k], "Payment"),
                       Total_Interest |->
                           GroupSum(big_df, keys[k], "Interest_Expense"),
                       Total_Principal |->
                           GroupSum(big_df, keys[k], "Principal"),
                       Ending_Liability |->
                           GroupSum(big_df, keys[k],
                                    "Lease_Liability_Balance")]]]

portfolio_rou_by_period(all_leases, start, end) ==
    LET big_df == FilterByDate(ConcatFrames(all_leases, DOMAIN all_leases),
                               start, end)
        keys == SortAscending(Periods(big_df))
        beginnings ==
            BeginningBalances(
                [k \in 1..Len(keys) |->
                    GroupSum(big_df, keys[k], "ROU_Asset_Balance")])
    IN  IF DOMAIN all_leases = {} THEN NoReport
        ELSE IF ~HasDateColumn(all_leases)
        THEN [raised |-> "KeyError", rows |-> <<>>]
        ELSE IF big_df = <<>> THEN NoReport
        ELSE [raised |-> "none",
              rows |->
                  [k \in 1..Len(keys) |->
                      [Period |-> keys[k],
                       Beginning_ROU_Asset |-> beginnings[k],
                       Total_Amortization |->
                           GroupSum(big_df, keys[k], "ROU_Asset_Amortization"),
                       Ending_ROU_Asset |->
                           GroupSum(big_df, keys[k], "ROU_Asset_Balance")]]]

-----------------------------------------------------------------------------
(* Specification PortfolioSpec: one call of each report function on a lease *)
(* mapping and a date range drawn in PortfolioInit                         *)

\* the leases of the mappings: what generate_amortization_schedule returns
\* for the values a CSV row or the sidebar can carry (a CSV row is not held
\* to a term of at least 1), at a monthly discount rate of 1
PortfolioInputs ==
    { [lease_term |-> t, base_payment |-> Num(BasePaymentAmount),
       annual_discount_rate |-> Num(12), annual_escalation_rate |-> Zero,
       start_date |-> v[1], payment_timing |-> v[2], lease_type |-> v[3]] :
      t \in 0..MaxPortfolioTerm,
      v \in { <<<<2024, 1, 31>>, "end", "Operating">>,
              <<<<2024, 2, 29>>, "begin", "Finance">> } }

\* the pairs the handlers store for them; a row whose call raised is skipped
PortfolioEntries ==
    LET call(in) == generate_amortization_schedule(
                        in.lease_term, in.base_payment,
                        in.annual_discount_rate, in.annual_escalation_rate,
                        in.start_date, in.payment_timing, in.lease_type)
    IN  { [schedule |-> call(in).rows,
           journal |-> generate_monthly_journal_entries(call(in).rows,
                                                        in.lease_type)] :
          in \in {i \in PortfolioInputs : call(i).raised = "none"} }

\* the lease mappings: any of the lease names, each with any of the pairs
PortfolioLeases ==
    UNION {[names -> PortfolioEntries] : names \in SUBSET LeaseNames}

\* values of the two date inputs
ReportDates ==
    {<<2024, 1, 1>>, <<2024, 2, 29>>, <<2024, 3, 30>>, <<2024, 12, 31>>}

PortfolioInit ==
    /\ lease_term = 0
    /\ base_payment = Zero
    /\ annual_discount_rate = Zero
    /\ annual_escalation_rate = Zero
    /\ start_date = <<2024, 1, 31>>
    /\ payment_timing = "end"
    /\ lease_type = "Operating"
    /\ pc = "reports"
    /\ monthly_payments = <<>>
    /\ period = 0
    /\ st = NoLocals
    /\ df_schedule = <<>>
    /\ df_journal = <<>>
    /\ raised = "none"
    /\ sheet = <<>>
    /\ saved_leases \in PortfolioLeases
    /\ last_action = [kind |-> "session"]
    /\ every_call_ok = TRUE
    /\ report_start \in ReportDates
    /\ report_end \in ReportDates
    /\ df_liab = <<>>
    /\ df_rou = <<>>

report_inputs == <<lease_term, base_payment, annual_discount_rate,
                   annual_escalation_rate, start_date, payment_timing,
                   lease_type, monthly_payments, period, st, df_schedule,
                   df_journal, app_vars, report_start, report_end>>

\* df_liab = portfolio_liab_by_period(saved_leases, report_start, report_end)
CallPortfolioLiabByPeriod ==
    /\ pc = "reports"
    /\ LET call == portfolio_liab_by_period(saved_leases, report_start,
                                            report_end)
       IN  /\ raised' = call.raised
           /\ df_liab' = call.rows
           /\ pc' = IF call.raised = "none" THEN "liab" ELSE "liab raised"
    /\ UNCHANGED <<report_inputs, df_rou>>

\* df_rou = portfolio_rou_by_period(saved_leases, report_start, report_end)
CallPortfolioRouByPeriod ==
    /\ pc = "reports"
    /\ LET call == portfolio_rou_by_period(saved_leases, report_start,
                                           report_end)
       IN  /\ raised' = call.raised
           /\ df_rou' = call.rows
           /\ pc' = IF call.raised = "none" THEN "rou" ELSE "rou raised"
    /\ UNCHANGED <<report_inputs, df_liab>>

PortfolioNext ==
    \/ CallPortfolioLiabByPeriod
    \/ CallPortfolioRouByPeriod

PortfolioSpec == PortfolioInit /\ [][PortfolioNext]_vars

-----------------------------------------------------------------------------
(* Properties of the session, checked under AppSpec *)

\* C6: after "Generate & Save Lease Schedule" or "Overwrite" for lease name
\* n, saved_leases holds for n exactly the schedule and journal just
\* computed, whether or not the save to the worksheet and the load from it
\* succeeded.
C6_ComputedLeaseStaysInMemory ==
    last_action.kind \in {"generate", "overwrite"}
    => /\ last_action.name \in DOMAIN saved_leases
       /\ saved_leases[last_action.name] =
              [schedule |-> last_action.schedule,
               journal |-> last_action.journal]

\* the data rows of the worksheet stored under lease name n
RowsNamed(n) == {i \in 1..Len(sheet) : sheet[i].LeaseName = n}

\* C14: as long as every Google Sheets call of the session has succeeded,
\* the worksheet holds at most one row per lease name, and right after
\* "Delete Lease" of name n and its reload n is not in saved_leases.
C14_OneRowPerNameAndDeleteRemoves ==
    every_call_ok
    => /\ \A n \in LeaseNames : Cardinality(RowsNamed(n)) <= 1
       /\ last_action.kind = "delete" =>
              last_action.name \notin DOMAIN saved_leases

-----------------------------------------------------------------------------
(* Properties of the computational core, checked under Spec *)

\* the call returned a schedule
Returned == pc \in {"scheduled", "journaled"}

ValidInput ==
    lease_term >= 1 /\ ValidTiming(payment_timing) /\ ValidType(lease_type)

\* the initial lease liability: the present value of the payment stream
InitialLiability ==
    present_value_of_varied_payments(
        monthly_payments, MonthlyRate(annual_discount_rate), payment_timing)

\* the sum of one column of a sequence of rows
SumPrincipal(rows) == SumSeq([i \in 1..Len(rows) |-> rows[i].Principal])
SumRouAmortization(rows) ==
    SumSeq([i \in 1..Len(rows) |-> rows[i].ROU_Asset_Amortization])

\* the liability balance row p starts from
BalanceBefore(rows, p) ==
    IF p = 1 THEN InitialLiability ELSE rows[p - 1].Lease_Liability_Balance

\* every row's ending liability is the previous ending liability less the
\* row's principal
LiabilityChain(rows) ==
    \A p \in 1..Len(rows) :
        rows[p].Lease_Liability_Balance =
            Sub(BalanceBefore(rows, p), rows[p].Principal)

\* the debits and the credits of the journal lines of period p
PeriodDebits(journal, p) ==
    SumSeq([i \in 1..Len(journal) |->
               IF journal[i].Period = p THEN journal[i].Debit ELSE Zero])
PeriodCredits(journal, p) ==
    SumSeq([i \in 1..Len(journal) |->
               IF journal[i].Period = p THEN journal[i].Credit ELSE Zero])

Cent == <<1, 100>>

\* C1: for every schedule of a recognized lease type and payment timing and
\* every period p, the journal lines of period p balance: the sum of their
\* debits equals the sum of their credits, within 0.01.
C1_JournalBalancesEveryPeriod ==
    (pc = "journaled" /\ ValidTiming(payment_timing) /\ ValidType(lease_type))
    => \A p \in 1..Len(df_schedule) :
           Leq(AbsR(Sub(PeriodDebits(df_journal, p),
                        PeriodCredits(df_journal, p))), Cent)

\* C2: for payment timing "end" and a lease term of at least 1, the
\* principal of all rows sums to the initial lease liability, so the last
\* row's liability balance is 0; and with a zero discount rate every row has
\* no interest and a principal equal to its payment.
C2_ArrearsPrincipalRepaysLiability ==
    (Returned /\ payment_timing = "end" /\ lease_term >= 1)
    => /\ SumPrincipal(df_schedule) = InitialLiability
       /\ df_schedule[Len(df_schedule)].Lease_Liability_Balance = Zero
       /\ IsZero(annual_discount_rate) =>
              \A p \in 1..Len(df_schedule) :
                  /\ df_schedule[p].Interest_Expense = Zero
                  /\ df_schedule[p].Principal = df_schedule[p].Payment

\* C2 witness: an arrears lease of several periods at a positive rate has
\* been scheduled, charged interest, and ended with a liability of 0.
C2_Witness ==
    /\ Returned /\ payment_timing = "end" /\ lease_term >= 3
    /\ ~IsZero(annual_discount_rate) /\ ~IsZero(base_payment)
    /\ ~IsZero(df_schedule[1].Interest_Expense)
    /\ df_schedule[Len(df_schedule)].Lease_Liability_Balance = Zero

\* C3: for every valid input whatever the payment timing, each row's
\* liability balance is the previous balance less the row's principal,
\* starting from the present value of the payment stream, and the principal
\* of all rows sums to that initial liability: the final liability balance
\* is zero, never negative.
C3_PrincipalRepaysLiabilityAnyTiming ==
    (Returned /\ ValidInput)
    => /\ LiabilityChain(df_schedule)
       /\ SumPrincipal(df_schedule) = InitialLiability
       /\ df_schedule[Len(df_schedule)].Lease_Liability_Balance = Zero

\* C4: a call with a lease term of zero or less, for either lease type,
\* fails with an error: it never returns a schedule, empty or partial.
C4_NonPositiveTermFails ==
    (lease_term <= 0 /\ ValidTiming(payment_timing) /\ ValidType(lease_type))
    => ~Returned

\* C5: a call with an unrecognized lease type or payment timing fails with
\* an error: neither the schedule nor the journal is produced as if the
\* value were a recognized one.
C5_UnrecognizedValueFails ==
    (lease_term >= 1
     /\ (~ValidTiming(payment_timing) \/ ~ValidType(lease_type)))
    => ~Returned

\* C7: for every valid input the schedule has exactly lease_term rows with
\* Period 1, 2, ..., lease_term in that order, and each row is computed
\* from the liability balance the previous row left (the initial present
\* value for period 1).
C7_OneRowPerPeriodInOrder ==
    (Returned /\ ValidInput)
    => /\ Len(df_schedule) = lease_term
       /\ \A p \in 1..Len(df_schedule) :
              LET row == df_schedule[p]
                  before == BalanceBefore(df_schedule, p)
                  rate == MonthlyRate(annual_discount_rate)
              IN  /\ row.Period = p
                  /\ row.Date = DateOffsetMonths(start_date, p - 1)
                  /\ row.Payment = monthly_payments[p]
                  /\ row.Lease_Liability_Balance = Sub(before, row.Principal)
                  /\ row.Interest_Expense =
                         IF payment_timing = "end" THEN Mul(before, rate)
                         ELSE Mul(Sub(before, row.Principal), rate)

\* C7 witness: a schedule of the longest term has been returned for a valid
\* input with a positive rate.
C7_Witness ==
    /\ Returned /\ ValidInput /\ lease_term = MaxTerm
    /\ Len(df_schedule) = MaxTerm
    /\ ~IsZero(annual_discount_rate) /\ ~IsZero(base_payment)

\* C8: for a Finance lease the ROU amortization is the same in every period,
\* the initial ROU asset (the initial liability) divided by the lease term,
\* so the amortization of all periods sums to the initial ROU asset.
C8_FinanceAmortizationStraightLine ==
    (Returned /\ lease_type = "Finance" /\ lease_term >= 1)
    => /\ \A p \in 1..Len(df_schedule) :
              df_schedule[p].ROU_Asset_Amortization =
                  Div(InitialLiability, Num(lease_term))
       /\ SumRouAmortization(df_schedule) = InitialLiability

\* C8 witness: a Finance lease of several periods with a positive liability
\* has been scheduled, while its liability moved.
C8_Witness ==
    /\ Returned /\ lease_type = "Finance" /\ lease_term >= 3
    /\ ~IsZero(df_schedule[1].ROU_Asset_Amortization)
    /\ df_schedule[1].Lease_Liability_Balance
           # df_schedule[2].Lease_Liability_Balance

\* C9: every row of every schedule, finished or under construction, has an
\* ROU_Asset_Balance of at least 0, also when the running rou_asset
\* accumulator is negative.
C9_ReportedRouBalanceNonNegative ==
    \A p \in 1..Len(st.schedule_rows) :
        ~IsNeg(st.schedule_rows[p].ROU_Asset_Balance)

\* C9 witness: the loop has appended a row while the accumulator was
\* negative, and goes on.
C9_Witness ==
    /\ pc = "loop" /\ period <= lease_term
    /\ st.schedule_rows # <<>>
    /\ IsNeg(st.rou_asset)
    /\ st.schedule_rows[Len(st.schedule_rows)].ROU_Asset_Balance = Zero

\* C10: generate_monthly_payments returns lease_term payments; the first is
\* the base payment, the payment stays the same within each block of 12
\* months and is multiplied by (1 + escalation rate) from one block to the
\* next, that is payment(m) = base * (1 + rate) ^ floor((m - 1) / 12); and
\* the result does not depend on the payment timing.
C10_PaymentsEscalateOncePerYear ==
    (pc = "payments" /\ lease_term >= 0)
    => /\ Len(monthly_payments) = lease_term
       /\ lease_term >= 1 => monthly_payments[1] = base_payment
       /\ \A m \in 1..(Len(monthly_payments) - 1) :
              monthly_payments[m + 1] =
                  IF m % 12 = 0
                  THEN Mul(monthly_payments[m],
                           Add(Num(1), annual_escalation_rate))
                  ELSE monthly_payments[m]
       /\ \A t \in {"end", "begin"} :
              generate_monthly_payments(base_payment, lease_term,
                                        annual_escalation_rate, t)
                  = monthly_payments

\* C10 witness: an advance lease running into its second year has had its
\* payments computed, and the thirteenth is higher than the twelfth.
C10_Witness ==
    /\ pc = "payments" /\ payment_timing = "begin" /\ lease_term >= 13
    /\ monthly_payments[12] = base_payment
    /\ monthly_payments[13] # monthly_payments[12]

\* the balance the ROU asset has after period p when every period's
\* amortization is taken off the initial ROU asset
RouAfterAmortization(rows, p) ==
    Sub(InitialLiability, SumRouAmortization(SubSeq(rows, 1, p)))

\* C13: for both lease types, while the schedule is built and when it is
\* returned, the rou_asset accumulator is the initial ROU asset less the ROU
\* amortization of the rows so far, and row p reports
\* max(initial ROU - amortization of periods 1..p, 0); so the reported balance
\* of a Finance lease with a positive initial ROU asset goes down in every
\* period and is 0 in the last one.
C13_RouBalanceIsInitialLessAmortization ==
    (pc \in {"loop", "scheduled", "journaled"} /\ ValidInput)
    => LET rows == st.schedule_rows
       IN  /\ st.rou_asset = RouAfterAmortization(rows, Len(rows))
           /\ \A p \in 1..Len(rows) :
                  rows[p].ROU_Asset_Balance =
                      Max0(RouAfterAmortization(rows, p))
           /\ (lease_type = "Finance" /\ ~IsZero(InitialLiability)) =>
                  /\ \A p \in 2..Len(rows) :
                         /\ rows[p].ROU_Asset_Balance
                                # rows[p - 1].ROU_Asset_Balance
                         /\ Leq(rows[p].ROU_Asset_Balance,
                                rows[p - 1].ROU_Asset_Balance)
                  /\ Len(rows) = lease_term =>
                         rows[lease_term].ROU_Asset_Balance = Zero

-----------------------------------------------------------------------------
(* Properties of the portfolio reports, checked under PortfolioSpec *)

\* the schedule rows of the window: <<lease name, row number>> of every row
\* of every lease of saved_leases dated from report_start to report_end
WindowRows ==
    {nr \in UNION {{<<n, i>> : i \in 1..Len(saved_leases[n].schedule)} :
                      n \in DOMAIN saved_leases} :
        LET day == DateToJson(saved_leases[nr[1]].schedule[nr[2]].Date)
        IN  DateToJson(report_start) <= day /\ day <= DateToJson(report_end)}

ScheduleRow(nr) == saved_leases[nr[1]].schedule[nr[2]]

\* the rows of the window with Period p, and the sum of one of their fields
WindowRowsOf(p) == {nr \in WindowRows : ScheduleRow(nr).Period = p}

RECURSIVE SumField(_, _)
SumField(nrs, col) ==
    IF nrs = {} THEN Zero
    ELSE LET nr == CHOOSE x \in nrs : TRUE
         IN  Add(ScheduleRow(nr)[col], SumField(nrs \ {nr}, col))

\* the report has one row per Period of the window, in ascending order
OneRowPerPeriodAscending(report) ==
    /\ {report[k].Period : k \in 1..Len(report)}
           = {ScheduleRow(nr).Period : nr \in WindowRows}
    /\ \A k \in 1..(Len(report) - 1) : report[k].Period < report[k + 1].Period

\* the first Beginning balance is 0, every later one the Ending balance of
\* the row before
RollsForward(report, beginning, ending) ==
    \A k \in 1..Len(report) :
        report[k][beginning] = IF k = 1 THEN Zero ELSE report[k - 1][ending]

\* C11: a report portfolio_liab_by_period or portfolio_rou_by_period returns
\* has one row per Period found among the schedule rows of the date window,
\* sorted ascending by Period; each row's totals are the sums of the fields
\* of all schedule rows of the window with that Period, over all leases; the
\* first row's Beginning balance is 0 and every later row's Beginning
\* balance is the Ending balance of the row before.
C11_ReportsRollForwardByPeriod ==
    /\ pc = "liab" =>
           /\ OneRowPerPeriodAscending(df_liab)
           /\ \A k \in 1..Len(df_liab) :
                  LET row == df_liab[k]
                      of == WindowRowsOf(row.Period)
                  IN  /\ row.Total_Payment = SumField(of, "Payment")
                      /\ row.Total_Interest = SumField(of, "Interest_Expense")
                      /\ row.Total_Principal = SumField(of, "Principal")
                      /\ row.Ending_Liability =
                             SumField(of, "Lease_Liability_Balance")
           /\ RollsForward(df_liab, "Beginning_Liability", "Ending_Liability")
    /\ pc = "rou" =>
           /\ OneRowPerPeriodAscending(df_rou)
           /\ \A k \in 1..Len(df_rou) :
                  LET row == df_rou[k]
                      of == WindowRowsOf(row.Period)
                  IN  /\ row.Total_Amortization =
                             SumField(of, "ROU_Asset_Amortization")
                      /\ row.Ending_ROU_Asset =
                             SumField(of, "ROU_Asset_Balance")
           /\ RollsForward(df_rou, "Beginning_ROU_Asset", "Ending_ROU_Asset")

\* C11 witness: the liability report of two leases has been returned for a
\* window that leaves some of their rows out; it has several rows, one of
\* them sums a row of each lease, and the second row begins with a balance
\* other than 0.
C11_Witness ==
    /\ pc = "liab" /\ Len(df_liab) >= 2
    /\ Cardinality(DOMAIN saved_leases) = 2
    /\ \E n \in DOMAIN saved_leases :
           \E i \in 1..Len(saved_leases[n].schedule) : <<n, i>> \notin WindowRows
    /\ \E k \in 1..Len(df_liab) :
           Cardinality(WindowRowsOf(df_liab[k].Period)) = 2
    /\ df_liab[2].Beginning_Liability # Zero
    /\ df_liab[2].Beginning_Liability = df_liab[1].Ending_Liability

\* C12: a call of portfolio_liab_by_period or portfolio_rou_by_period on an
\* empty lease mapping, or with a date range that no schedule row falls in,
\* raises nothing and returns an empty report.
C12_NothingToReportIsEmptyNotError ==
    (pc # "reports" /\ (DOMAIN saved_leases = {} \/ WindowRows = {}))
    => /\ raised = "none"
       /\ df_liab = <<>>
       /\ df_rou = <<>>

====
